---- MODULE Spec2Model ----
(***************************************************************************)
(* Model of the nova-core bring-up core:                                   *)
(*   - Timer::read and Timer::wait_on  (drivers/gpu/nova-core/timer.rs)    *)
(*   - u64::from_u32s / into_u32s      (rust/kernel/num.rs)                *)
(*   - Chipset catalog and TryFrom<u32> (drivers/gpu/nova-core/gpu.rs)     *)
(*   - the boot register               (drivers/gpu/nova-core/regs.rs)     *)
(*   - Gpu::new, Spec::new, Firmware::new (drivers/gpu/nova-core/gpu.rs)   *)
(*   - firmware::ModInfoBuilder        (rust/kernel/firmware.rs)           *)
(*   - the driver's manifest           (drivers/gpu/nova-core/firmware.rs) *)
(*                                                                         *)
(* TLC integers are 32 bits wide, so a 32-bit register half is modelled as *)
(* a digit in 0..Word-1: Word plays the role of 2^32 and U64Max the role   *)
(* of u64::MAX.  All arithmetic keeps that width.  The boot register keeps *)
(* its 32 bits, as a pair of 16-bit halves.                                *)
(***************************************************************************)
EXTENDS Integers, Sequences, FiniteSets, TLC

VARIABLES
    \* ---- hardware
    clock,        \* the 64-bit PTIMER counter (PTIMER_TIME_1:PTIMER_TIME_0)
    \* ---- Timer::wait_on / Timer::read, one thread of control
    pc,           \* position of the thread
    caller,       \* which call of Timer::read is running: "entry" or "loop"
    hi, lo,       \* locals of Timer::read
    ret,          \* value returned by the last Timer::read
    timeout,      \* wait_on's timeout, in nanoseconds (Duration::as_nanos, u128)
    cur_time, prev_time, deadline, num_reads,   \* locals of wait_on
    condRet,      \* what the last evaluation of cond() returned
    result,       \* what wait_on returned
    \* ---- history variables of the timer (never read by the program)
    atLo,         \* the counter at the moment the low half was read
    retried,      \* the running Timer::read has retried at least once
    firstEval,    \* outcome of the first evaluation of cond() of this call
    polled,       \* a stall/deadline check has run in this call
    lastReading,  \* the reading the previous check (or the entry) saw
    sameRun,      \* consecutive checks whose reading equalled the previous one
    failCause,    \* which branch produced the error: "stall" or "deadline"
    startTime,    \* the reading taken on entry (start of the wait)
    \* ---- chipset identification
    chip_pc,      \* "input", then "identified"
    chip_id,      \* the raw chipset ID handed to try_from
    chip_res,     \* what try_from returned
    \* ---- module_firmware!: the two passes over a create() function
    scen,         \* which create() is evaluated
    prog,         \* the builder operations create() performs, in order
    mname,        \* __module_name(), as bytes without the NUL
    bpc,          \* "sizing", "building", then "built" or "failed"
    ip,           \* index in prog of the next operation
    sz,           \* the ModInfoBuilder<0> of the sizing pass
    bd,           \* the ModInfoBuilder<N> of the building pass
    szHist,       \* history: sz.n after each operation of the sizing pass
    viaMacro,     \* N came from build_length() (module_firmware!)
    \* ---- u64::from_u32s / into_u32s applied to inputs
    pair_pc,      \* "input", "joined", then "back"
    value_pc,     \* "input", "split", then "rejoined"
    n_high, n_low,  \* a pair of halves
    n_joined,     \* from_u32s(n_high, n_low), once computed
    n_back,       \* into_u32s(n_joined), once computed
    n_x,          \* a 64-bit value
    n_split,      \* into_u32s(n_x), once computed
    n_rejoined,   \* from_u32s of n_split, once computed
    \* ---- the derivation of a symbolic name
    name_pc,      \* "input", then "derived"
    name_in,      \* the declared name, stringify!($variant)
    name_out,     \* to_lowercase_bytes::<{ name_in.len() }>(name_in)
    \* ---- Gpu::new
    gpu_pc,       \* position in Gpu::new
    bar_ok,       \* whether bar.try_access() yields the register region
    boot0,        \* the raw value the boot register reads as
    decoded,      \* history: the chipset ID Spec::new decoded
    gpu_spec,     \* the Spec built by Spec::new
    chip_name,    \* local of Firmware::new
    requested,    \* the firmware requests made so far, in order
    outcomes,     \* history: how each call of the request closure ended
    held,         \* number of firmware::Firmware objects alive
    gpu_res       \* what Gpu::new returned

timerVars == <<clock, pc, caller, hi, lo, ret, timeout, cur_time, prev_time,
               deadline, num_reads, condRet, result, atLo, retried, firstEval,
               polled, lastReading, sameRun, failCause, startTime>>

chipVars == <<chip_pc, chip_id, chip_res>>

builderVars == <<scen, prog, mname, bpc, ip, sz, bd, szHist, viaMacro>>

numVars == <<pair_pc, value_pc, n_high, n_low, n_joined, n_back, n_x, n_split, n_rejoined>>

nameVars == <<name_pc, name_in, name_out>>

gpuVars == <<gpu_pc, bar_ok, boot0, decoded, gpu_spec, chip_name, requested,
             outcomes, held, gpu_res>>

vars == <<timerVars, chipVars, builderVars, numVars, nameVars, gpuVars>>

-----------------------------------------------------------------------------
(* Bounds of the model *)

Word == 3
MaxTimeout == 2
MaxCondValue == 2
MaxChipId == 511
MaxHighBits == 2
MaxOps == 3
MaxCapacity == 16
MaxNameLen == 2

-----------------------------------------------------------------------------
(* rust/kernel/num.rs *)

U64Max == Word * Word - 1

\* Faulty variant: the halves are exchanged.
from_u32sMutant(high, low) == low * Word + high
\* num.rs:25-27  ((high as u64) << u32::BITS) | low as u64
from_u32s(high, low) == high * Word + low

\* num.rs:29-31  ((self >> u32::BITS) as u32, self as u32)
into_u32s(x) == <<x \div Word, x % Word>>

-----------------------------------------------------------------------------
(* drivers/gpu/nova-core/regs.rs: the two halves of the counter *)

PtimerTime1Read == clock \div Word

PtimerTime0Read == clock % Word

-----------------------------------------------------------------------------
(* drivers/gpu/nova-core/regs.rs: the boot register.  A u32 is a pair
   <<h, l>> of 16-bit halves, worth h * 2^16 + l. *)

RECURSIVE bitand(_, _)
\* a & b on one half
bitand(a, b) ==
    IF a = 0 \/ b = 0 THEN 0
    ELSE (a % 2) * (b % 2) + 2 * bitand(a \div 2, b \div 2)

RECURSIVE bitor(_, _)
\* a | b on one half
bitor(a, b) ==
    IF a = 0 THEN b
    ELSE IF b = 0 THEN a
    ELSE (a % 2) + (b % 2) - (a % 2) * (b % 2) + 2 * bitor(a \div 2, b \div 2)

\* v & m on u32
And32(v, m) == <<bitand(v[1], m[1]), bitand(v[2], m[2])>>

\* a | b on u32
Or32(a, b) == <<bitor(a[1], b[1]), bitor(a[2], b[2])>>

\* v >> k on u32, 0 <= k < 32
Shr32(v, k) ==
    IF k >= 16
        THEN <<0, v[1] \div 2^(k - 16)>>
        ELSE <<v[1] \div 2^k, (v[1] % 2^k) * 2^(16 - k) + v[2] \div 2^k>>

\* A u32 below 2^31 as an integer.
ToInt(v) == v[1] * 2^16 + v[2]

\* `as u8`
AsU8(v) == v[2] % 2^8

BOOT0_MINOR_REV_SHIFT == 0
BOOT0_MINOR_REV_MASK == <<\H0000, \H000f>>
BOOT0_MAJOR_REV_SHIFT == 4
BOOT0_MAJOR_REV_MASK == <<\H0000, \H00f0>>
BOOT0_IMPL_SHIFT == 20
BOOT0_IMPL_MASK == <<\H00f0, \H0000>>
BOOT0_ARCH_MASK == <<\H1f00, \H0000>>
BOOT0_CHIPSET_SHIFT == BOOT0_IMPL_SHIFT
BOOT0_CHIPSET_MASK == Or32(BOOT0_IMPL_MASK, BOOT0_ARCH_MASK)

\* Faulty variant: the top bit of the architecture field is masked off.
Boot0_chipsetMutant(v) ==
    ToInt(Shr32(And32(v, <<\H0ff0, \H0000>>), BOOT0_CHIPSET_SHIFT))
\* Boot0::chipset, regs.rs:42-44
Boot0_chipset(v) ==
    ToInt(Shr32(And32(v, BOOT0_CHIPSET_MASK), BOOT0_CHIPSET_SHIFT))

\* Boot0::minor_rev, regs.rs:47-49
Boot0_minor_rev(v) ==
    AsU8(Shr32(And32(v, BOOT0_MINOR_REV_MASK), BOOT0_MINOR_REV_SHIFT))

\* Boot0::major_rev, regs.rs:52-54
Boot0_major_rev(v) ==
    AsU8(Shr32(And32(v, BOOT0_MAJOR_REV_MASK), BOOT0_MAJOR_REV_SHIFT))

-----------------------------------------------------------------------------
(* drivers/gpu/nova-core/timer.rs *)

MAX_STALLED_READS == 16

None == [some |-> FALSE, val |-> 0]
Some(v) == [some |-> TRUE, val |-> v]
CondOutcomes == {None} \cup {Some(v) : v \in 1..MaxCondValue}

NoResult == [kind |-> "none", val |-> 0, err |-> "none"]
Ok(v) == [kind |-> "Ok", val |-> v, err |-> "none"]
Err(e) == [kind |-> "Err", val |-> 0, err |-> e]

\* Duration values offered to wait_on: small ones, u64::MAX and one that does
\* not fit a u64.
Timeouts == (0..MaxTimeout) \cup {U64Max, U64Max + 1}

\* u64::try_from(timeout.as_nanos()).unwrap_or(u64::MAX)
TimeoutNanos(t) == IF t > U64Max THEN U64Max ELSE t

\* Faulty variant: the addition wraps around at 2^64.
saturating_addMutant(a, b) == (a + b) % (U64Max + 1)
\* u64::saturating_add, timer.rs:57
saturating_add(a, b) == IF a + b > U64Max THEN U64Max ELSE a + b

\* Faulty variant: the second high-half read is not compared.
HighAgreesMutant(h1, h2) == TRUE
\* timer.rs:25  hi == regs::PtimerTime1::read(bar)
HighAgrees(h1, h2) == h1 = h2

\* Faulty variant: the counter moves by one in either direction, so its
\* readings may go backwards.
TickMutant ==
    /\ \E c \in {clock - 1, clock + 1} :
          /\ c \in 0..U64Max
          /\ clock' = c
    /\ UNCHANGED <<pc, caller, hi, lo, ret, timeout, cur_time, prev_time,
                   deadline, num_reads, condRet, result, atLo, retried,
                   firstEval, polled, lastReading, sameRun, failCause,
                   startTime>>
    /\ UNCHANGED <<chipVars, builderVars, numVars, nameVars, gpuVars>>

\* The device advances the counter on its own; it never goes backwards.
Tick ==
    /\ clock < U64Max
    /\ clock' = clock + 1
    /\ UNCHANGED <<pc, caller, hi, lo, ret, timeout, cur_time, prev_time,
                   deadline, num_reads, condRet, result, atLo, retried,
                   firstEval, polled, lastReading, sameRun, failCause,
                   startTime>>
    /\ UNCHANGED <<chipVars, builderVars, numVars, nameVars, gpuVars>>

\* A call of wait_on(bar, t, cond): control enters the first closure, which
\* calls Timer::read.
WaitOn ==
    /\ pc \in {"idle", "done"}
    /\ \E t \in Timeouts : timeout' = t
    /\ pc' = "read_hi"
    /\ caller' = "entry"
    /\ result' = NoResult
    /\ condRet' = None
    /\ retried' = FALSE
    /\ firstEval' = "pending"
    /\ polled' = FALSE
    /\ sameRun' = 0
    /\ failCause' = "none"
    /\ cur_time' = 0
    /\ prev_time' = 0
    /\ deadline' = 0
    /\ num_reads' = 0
    /\ lastReading' = 0
    /\ startTime' = 0
    /\ UNCHANGED <<clock, hi, lo, ret, atLo>>
    /\ UNCHANGED <<chipVars, builderVars, numVars, nameVars, gpuVars>>

\* timer.rs:22
ReadHi ==
    /\ pc = "read_hi"
    /\ hi' = PtimerTime1Read
    /\ pc' = "read_lo"
    /\ UNCHANGED <<clock, caller, lo, ret, timeout, cur_time, prev_time,
                   deadline, num_reads, condRet, result, atLo, retried,
                   firstEval, polled, lastReading, sameRun, failCause,
                   startTime>>
    /\ UNCHANGED <<chipVars, builderVars, numVars, nameVars, gpuVars>>

\* timer.rs:23
ReadLo ==
    /\ pc = "read_lo"
    /\ lo' = PtimerTime0Read
    /\ atLo' = clock
    /\ pc' = "read_hi2"
    /\ UNCHANGED <<clock, caller, hi, ret, timeout, cur_time, prev_time,
                   deadline, num_reads, condRet, result, retried, firstEval,
                   polled, lastReading, sameRun, failCause, startTime>>
    /\ UNCHANGED <<chipVars, builderVars, numVars, nameVars, gpuVars>>

\* Faulty variant: the retries are capped; after one retry the value is
\* returned whatever the second high-half read shows.
ReadHi2Mutant ==
    /\ pc = "read_hi2"
    /\ IF HighAgrees(hi, PtimerTime1Read) \/ retried
          THEN /\ ret' = from_u32s(hi, lo)
               /\ pc' = IF caller = "entry" THEN "start" ELSE "check"
               /\ retried' = retried
               /\ hi' = 0
               /\ lo' = 0
          ELSE /\ ret' = ret
               /\ pc' = "read_hi"
               /\ retried' = TRUE
               /\ hi' = 0
               /\ lo' = 0
    /\ UNCHANGED <<clock, caller, timeout, cur_time, prev_time,
                   deadline, num_reads, condRet, result, atLo, firstEval,
                   polled, lastReading, sameRun, failCause, startTime>>
    /\ UNCHANGED <<chipVars, builderVars, numVars, nameVars, gpuVars>>
\* timer.rs:25-27: re-read the high half; return or go round the loop.
ReadHi2 ==
    /\ pc = "read_hi2"
    /\ IF HighAgrees(hi, PtimerTime1Read)
          THEN /\ ret' = from_u32s(hi, lo)
               /\ pc' = IF caller = "entry" THEN "start" ELSE "check"
               /\ retried' = retried
               /\ hi' = 0
               /\ lo' = 0
          ELSE /\ ret' = ret
               /\ pc' = "read_hi"
               /\ retried' = TRUE
               /\ hi' = 0
               /\ lo' = 0
    /\ UNCHANGED <<clock, caller, timeout, cur_time, prev_time,
                   deadline, num_reads, condRet, result, atLo, firstEval,
                   polled, lastReading, sameRun, failCause, startTime>>
    /\ UNCHANGED <<chipVars, builderVars, numVars, nameVars, gpuVars>>

\* Faulty variant: the deadline is tested before cond() is first evaluated.
StartMutant ==
    /\ pc = "start"
    /\ cur_time' = ret
    /\ prev_time' = ret
    /\ deadline' = saturating_add(ret, TimeoutNanos(timeout))
    /\ num_reads' = 0
    /\ lastReading' = ret
    /\ startTime' = ret
    /\ IF ret >= saturating_add(ret, TimeoutNanos(timeout))
          THEN /\ result' = Err("ETIMEDOUT")
               /\ failCause' = "deadline"
               /\ pc' = "done"
          ELSE /\ result' = result
               /\ failCause' = failCause
               /\ pc' = "cond"
    /\ retried' = FALSE
    /\ ret' = 0
    /\ atLo' = 0
    /\ UNCHANGED <<clock, caller, hi, lo, timeout, condRet, firstEval, polled,
                   sameRun>>
    /\ UNCHANGED <<chipVars, builderVars, numVars, nameVars, gpuVars>>

\* timer.rs:55-62: the first closure, after its Timer::read returned.
Start ==
    /\ pc = "start"
    /\ cur_time' = ret
    /\ prev_time' = ret
    /\ deadline' = saturating_add(ret, TimeoutNanos(timeout))
    /\ num_reads' = 0
    /\ lastReading' = ret
    /\ startTime' = ret
    /\ pc' = "cond"
    /\ retried' = FALSE
    /\ ret' = 0
    /\ atLo' = 0
    /\ UNCHANGED <<clock, caller, hi, lo, timeout, condRet, result, firstEval,
                   polled, sameRun, failCause>>
    /\ UNCHANGED <<chipVars, builderVars, numVars, nameVars, gpuVars>>

\* Faulty variant: a value yielded by cond() is dropped when the clock has
\* reached the deadline.
CondMutant ==
    /\ pc = "cond"
    /\ \E r \in CondOutcomes :
          /\ condRet' = r
          /\ firstEval' = IF firstEval = "pending"
                             THEN (IF r.some THEN "some" ELSE "none")
                             ELSE firstEval
          /\ IF r.some
                THEN /\ result' = IF clock >= deadline
                                     THEN Err("ETIMEDOUT") ELSE Ok(r.val)
                     /\ pc' = "done"
                     /\ caller' = caller
                ELSE /\ result' = result
                     /\ pc' = "read_hi"
                     /\ caller' = "loop"
    /\ UNCHANGED <<clock, hi, lo, ret, timeout, cur_time, prev_time, deadline,
                   num_reads, atLo, retried, polled, lastReading, sameRun,
                   failCause, startTime>>
    /\ UNCHANGED <<chipVars, builderVars, numVars, nameVars, gpuVars>>
\* timer.rs:65-67: evaluate cond(); Some(ret) ends the call, None goes on to
\* the second closure, which calls Timer::read.
Cond ==
    /\ pc = "cond"
    /\ \E r \in CondOutcomes :
          /\ condRet' = r
          /\ firstEval' = IF firstEval = "pending"
                             THEN (IF r.some THEN "some" ELSE "none")
                             ELSE firstEval
          /\ IF r.some
                THEN /\ result' = Ok(r.val)
                     /\ pc' = "done"
                     /\ caller' = caller
                ELSE /\ result' = result
                     /\ pc' = "read_hi"
                     /\ caller' = "loop"
    /\ UNCHANGED <<clock, hi, lo, ret, timeout, cur_time, prev_time, deadline,
                   num_reads, atLo, retried, polled, lastReading, sameRun,
                   failCause, startTime>>
    /\ UNCHANGED <<chipVars, builderVars, numVars, nameVars, gpuVars>>

\* Faulty variant: the limit is tested one stalled read early.
StallLimitReachedMutant(n) == n + 1 >= MAX_STALLED_READS
\* timer.rs:74  num_reads >= MAX_STALLED_READS
StallLimitReached(n) == n >= MAX_STALLED_READS

\* Faulty variant: a reading one tick short of the deadline already counts.
DeadlineReachedEarlyMutant(t, d) == t + 1 >= d
\* Faulty variant: only a reading equal to the deadline counts.
DeadlineReachedMutant(t, d) == t = d
\* timer.rs:79  cur_time >= deadline
DeadlineReached(t, d) == t >= d

\* Faulty variant: the stalled clock is reported with its own error.
StalledErrorMutant == Err("EBUSY")
\* timer.rs:75  return Err(ETIMEDOUT)
StalledError == Err("ETIMEDOUT")

\* timer.rs:80  return Err(ETIMEDOUT)
DeadlineError == Err("ETIMEDOUT")

\* Faulty variant: a changed reading does not reset the stall counter.
CheckMutant ==
    /\ pc = "check"
    /\ cur_time' = ret
    /\ polled' = TRUE
    /\ lastReading' = ret
    /\ sameRun' = IF ret = lastReading THEN sameRun + 1 ELSE 0
    /\ retried' = FALSE
    /\ IF ret = prev_time
          THEN IF StallLimitReached(num_reads)
                  THEN /\ result' = StalledError
                       /\ failCause' = "stall"
                       /\ pc' = "done"
                       /\ UNCHANGED <<num_reads, prev_time>>
                  ELSE /\ num_reads' = num_reads + 1
                       /\ pc' = "cond"
                       /\ UNCHANGED <<result, failCause, prev_time>>
          ELSE IF DeadlineReached(ret, deadline)
                  THEN /\ result' = DeadlineError
                       /\ failCause' = "deadline"
                       /\ pc' = "done"
                       /\ UNCHANGED <<num_reads, prev_time>>
                  ELSE /\ num_reads' = num_reads
                       /\ prev_time' = ret
                       /\ pc' = "cond"
                       /\ UNCHANGED <<result, failCause>>
    /\ ret' = 0
    /\ atLo' = 0
    /\ UNCHANGED <<clock, caller, hi, lo, timeout, deadline, condRet,
                   firstEval, startTime>>
    /\ UNCHANGED <<chipVars, builderVars, numVars, nameVars, gpuVars>>
\* timer.rs:70-88: the second closure, after its Timer::read returned.
Check ==
    /\ pc = "check"
    /\ cur_time' = ret
    /\ polled' = TRUE
    /\ lastReading' = ret
    /\ sameRun' = IF ret = lastReading THEN sameRun + 1 ELSE 0
    /\ retried' = FALSE
    /\ IF ret = prev_time
          THEN IF StallLimitReached(num_reads)
                  THEN /\ result' = StalledError
                       /\ failCause' = "stall"
                       /\ pc' = "done"
                       /\ UNCHANGED <<num_reads, prev_time>>
                  ELSE /\ num_reads' = num_reads + 1
                       /\ pc' = "cond"
                       /\ UNCHANGED <<result, failCause, prev_time>>
          ELSE IF DeadlineReached(ret, deadline)
                  THEN /\ result' = DeadlineError
                       /\ failCause' = "deadline"
                       /\ pc' = "done"
                       /\ UNCHANGED <<num_reads, prev_time>>
                  ELSE /\ num_reads' = 0
                       /\ prev_time' = ret
                       /\ pc' = "cond"
                       /\ UNCHANGED <<result, failCause>>
    /\ ret' = 0
    /\ atLo' = 0
    /\ UNCHANGED <<clock, caller, hi, lo, timeout, deadline, condRet,
                   firstEval, startTime>>
    /\ UNCHANGED <<chipVars, builderVars, numVars, nameVars, gpuVars>>

TimerInit ==
    /\ clock \in 0..U64Max
    /\ pc = "idle"
    /\ caller = "entry"
    /\ hi = 0
    /\ lo = 0
    /\ ret = 0
    /\ timeout = 0
    /\ cur_time = 0
    /\ prev_time = 0
    /\ deadline = 0
    /\ num_reads = 0
    /\ condRet = None
    /\ result = NoResult
    /\ atLo = 0
    /\ retried = FALSE
    /\ firstEval = "pending"
    /\ polled = FALSE
    /\ lastReading = 0
    /\ sameRun = 0
    /\ failCause = "none"
    /\ startTime = 0

TimerIdle ==
    /\ clock = 0
    /\ pc = "off"
    /\ caller = "entry"
    /\ hi = 0
    /\ lo = 0
    /\ ret = 0
    /\ timeout = 0
    /\ cur_time = 0
    /\ prev_time = 0
    /\ deadline = 0
    /\ num_reads = 0
    /\ condRet = None
    /\ result = NoResult
    /\ atLo = 0
    /\ retried = FALSE
    /\ firstEval = "pending"
    /\ polled = FALSE
    /\ lastReading = 0
    /\ sameRun = 0
    /\ failCause = "none"
    /\ startTime = 0

\* Timer::read has just been called by the first closure of wait_on: the
\* state a call of wait_on leaves, for any value of the counter.
ReadInit ==
    /\ clock \in 0..U64Max
    /\ pc = "read_hi"
    /\ caller = "entry"
    /\ hi = 0
    /\ lo = 0
    /\ ret = 0
    /\ timeout \in Timeouts
    /\ cur_time = 0
    /\ prev_time = 0
    /\ deadline = 0
    /\ num_reads = 0
    /\ condRet = None
    /\ result = NoResult
    /\ atLo = 0
    /\ retried = FALSE
    /\ firstEval = "pending"
    /\ polled = FALSE
    /\ lastReading = 0
    /\ sameRun = 0
    /\ failCause = "none"
    /\ startTime = 0

\* timer.rs:20-29 as one step, for a call of Timer::read that returns: the
\* value returned is the counter as it stood during the call.
ReadReturns ==
    /\ pc = "read_hi"
    /\ ret' = clock
    /\ atLo' = clock
    /\ pc' = IF caller = "entry" THEN "start" ELSE "check"
    /\ UNCHANGED <<clock, caller, hi, lo, timeout, cur_time, prev_time,
                   deadline, num_reads, condRet, result, retried, firstEval,
                   polled, lastReading, sameRun, failCause, startTime>>
    /\ UNCHANGED <<chipVars, builderVars, numVars, nameVars, gpuVars>>

\* wait_on with every call of Timer::read returning.
WaitNext ==
    \/ Tick
    \/ WaitOn
    \/ ReadReturns
    \/ Start
    \/ Cond
    \/ Check

\* Timer::read alone, up to its return, with the counter running.
ReadNext ==
    \/ Tick
    \/ ReadHi
    \/ ReadLo
    \/ ReadHi2

TimerNext ==
    \/ Tick
    \/ WaitOn
    \/ ReadHi
    \/ ReadLo
    \/ ReadHi2
    \/ Start
    \/ Cond
    \/ Check

-----------------------------------------------------------------------------
(* Byte strings are sequences of byte values (ASCII codes). *)

\* stringify!($variant) of the define_chipset! invocation, gpu.rs:53-72
ChipsetALL == <<
    [variant |-> "TU102", value |-> \H162, ident |-> <<84, 85, 49, 48, 50>>],
    [variant |-> "TU104", value |-> \H164, ident |-> <<84, 85, 49, 48, 52>>],
    [variant |-> "TU106", value |-> \H166, ident |-> <<84, 85, 49, 48, 54>>],
    [variant |-> "TU117", value |-> \H167, ident |-> <<84, 85, 49, 49, 55>>],
    [variant |-> "TU116", value |-> \H168, ident |-> <<84, 85, 49, 49, 54>>],
    [variant |-> "GA102", value |-> \H172, ident |-> <<71, 65, 49, 48, 50>>],
    [variant |-> "GA103", value |-> \H173, ident |-> <<71, 65, 49, 48, 51>>],
    [variant |-> "GA104", value |-> \H174, ident |-> <<71, 65, 49, 48, 52>>],
    [variant |-> "GA106", value |-> \H176, ident |-> <<71, 65, 49, 48, 54>>],
    [variant |-> "GA107", value |-> \H177, ident |-> <<71, 65, 49, 48, 55>>],
    [variant |-> "AD102", value |-> \H192, ident |-> <<65, 68, 49, 48, 50>>],
    [variant |-> "AD103", value |-> \H193, ident |-> <<65, 68, 49, 48, 51>>],
    [variant |-> "AD104", value |-> \H194, ident |-> <<65, 68, 49, 48, 52>>],
    [variant |-> "AD106", value |-> \H196, ident |-> <<65, 68, 49, 48, 54>>],
    [variant |-> "AD107", value |-> \H197, ident |-> <<65, 68, 49, 48, 55>>]
>>

Variants == {ChipsetALL[i].variant : i \in 1..Len(ChipsetALL)}

\* The discriminant of an enum variant: `$variant = $value`, gpu.rs:33-35
Discriminant(variant) ==
    ChipsetALL[CHOOSE i \in 1..Len(ChipsetALL) :
                    ChipsetALL[i].variant = variant].value

\* Faulty variant: the letter A is left as it is.
to_ascii_lowercaseMutant(b) == IF b > 65 /\ b <= 90 THEN b + 32 ELSE b
\* gpu.rs:21  (src[i] as char).to_ascii_lowercase() as u8
to_ascii_lowercase(b) == IF b >= 65 /\ b <= 90 THEN b + 32 ELSE b

\* gpu.rs:15-26
to_lowercase_bytes(N, s) ==
    [i \in 1..N |-> IF i <= Len(s) THEN to_ascii_lowercase(s[i]) ELSE 0]

\* gpu.rs:42-48
ChipsetNAMES ==
    [i \in 1..Len(ChipsetALL) |->
        to_lowercase_bytes(Len(ChipsetALL[i].ident), ChipsetALL[i].ident)]

OkChipset(variant) == [kind |-> "Ok", variant |-> variant, err |-> "none"]
ErrChipset(e) == [kind |-> "Err", variant |-> "none", err |-> e]
NoChipset == [kind |-> "none", variant |-> "none", err |-> "none"]

\* Faulty variant: the arms for 0x167 and 0x168 are exchanged.
TryFromU32Mutant(value) ==
    CASE value = \H162 -> OkChipset("TU102")
      [] value = \H164 -> OkChipset("TU104")
      [] value = \H166 -> OkChipset("TU106")
      [] value = \H167 -> OkChipset("TU116")
      [] value = \H168 -> OkChipset("TU117")
      [] value = \H172 -> OkChipset("GA102")
      [] value = \H173 -> OkChipset("GA103")
      [] value = \H174 -> OkChipset("GA104")
      [] value = \H176 -> OkChipset("GA106")
      [] value = \H177 -> OkChipset("GA107")
      [] value = \H192 -> OkChipset("AD102")
      [] value = \H193 -> OkChipset("AD103")
      [] value = \H194 -> OkChipset("AD104")
      [] value = \H196 -> OkChipset("AD106")
      [] value = \H197 -> OkChipset("AD107")
      [] OTHER -> ErrChipset("ENODEV")

\* impl TryFrom<u32> for Chipset, gpu.rs:105-128
TryFromU32(value) ==
    CASE value = \H162 -> OkChipset("TU102")
      [] value = \H164 -> OkChipset("TU104")
      [] value = \H166 -> OkChipset("TU106")
      [] value = \H167 -> OkChipset("TU117")
      [] value = \H168 -> OkChipset("TU116")
      [] value = \H172 -> OkChipset("GA102")
      [] value = \H173 -> OkChipset("GA103")
      [] value = \H174 -> OkChipset("GA104")
      [] value = \H176 -> OkChipset("GA106")
      [] value = \H177 -> OkChipset("GA107")
      [] value = \H192 -> OkChipset("AD102")
      [] value = \H193 -> OkChipset("AD103")
      [] value = \H194 -> OkChipset("AD104")
      [] value = \H196 -> OkChipset("AD106")
      [] value = \H197 -> OkChipset("AD107")
      [] OTHER -> ErrChipset("ENODEV")


-----------------------------------------------------------------------------
(* rust/kernel/firmware.rs: ModInfoBuilder<N> *)

NUL == <<0>>

\* b"firmware="  (firmware.rs:265)
B_firmware_eq == <<102, 105, 114, 109, 119, 97, 114, 101, 61>>

\* b"nvidia/"  (nova-core/firmware.rs:15)
B_nvidia == <<110, 118, 105, 100, 105, 97, 47>>

\* b"/gsp/"  (nova-core/firmware.rs:17)
B_gsp_dir == <<47, 103, 115, 112, 47>>

\* b"-"  (nova-core/firmware.rs:19)
B_dash == <<45>>

\* b"535.113.01"  (nova-core/firmware.rs:10)
B_version == <<53, 51, 53, 46, 49, 49, 51, 46, 48, 49>>

\* b".bin"  (nova-core/firmware.rs:21)
B_bin == <<46, 98, 105, 110>>

\* b"booter_load"  (nova-core/firmware.rs:26)
B_booter_load == <<98, 111, 111, 116, 101, 114, 95, 108, 111, 97, 100>>

\* b"booter_unload"  (nova-core/firmware.rs:27)
B_booter_unload == <<98, 111, 111, 116, 101, 114, 95, 117, 110, 108, 111, 97, 100>>

\* b"bootloader"  (nova-core/firmware.rs:28)
B_bootloader == <<98, 111, 111, 116, 108, 111, 97, 100, 101, 114>>

\* b"gsp"  (nova-core/firmware.rs:29)
B_gsp == <<103, 115, 112>>

\* b"NovaCore"  (nova_core.rs:12)
B_NovaCore == <<78, 111, 118, 97, 67, 111, 114, 101>>

\* b"x"  (a module named x)
B_x == <<120>>

\* b"a"
B_a == <<97>>

\* b"bc"
B_bc == <<98, 99>>

\* ModInfoBuilder::new, firmware.rs:214-220.  `err` records a compile-time
\* failure (build_error! or a const-evaluation panic): evaluation stops there.
new(N, module_name) ==
    [N |-> N, buf |-> [i \in 1..N |-> 0], n |-> 0,
     module_name |-> module_name, err |-> "none"]

\* firmware.rs:222-238.  buf[self.n] is element n + 1 of the sequence.
push_internal(self, bytes) ==
    IF self.err # "none" THEN self
    ELSE IF self.N = 0
        THEN [self EXCEPT !.n = self.n + Len(bytes)]
        ELSE [self EXCEPT
                !.buf = [i \in 1..self.N |->
                            IF i > self.n /\ i <= self.n + Len(bytes)
                                THEN bytes[i - self.n]
                                ELSE self.buf[i]],
                !.n = self.n + Len(bytes)]

\* Faulty variant: push() does not test that prepare() came first.
pushMutant(self, bytes) == push_internal(self, bytes)
\* firmware.rs:244-250
push(self, bytes) ==
    IF self.err # "none" THEN self
    ELSE IF self.N # 0 /\ self.n = 0
        THEN [self EXCEPT !.err = "Must call prepare() before push()."]
        ELSE push_internal(self, bytes)

\* Faulty variant: the NUL after the module name is left in place.
swap_nul_for_dotMutant(this) == this
\* firmware.rs:259-262: this.buf[this.n - 1] = b'.'; an index outside the
\* array is a panic during const evaluation.
swap_nul_for_dot(this) ==
    IF this.err # "none" \/ this.N = 0 THEN this
    ELSE IF this.n >= 1 /\ this.n <= this.N
        THEN [this EXCEPT !.buf[this.n] = 46]
        ELSE [this EXCEPT !.err = "index out of bounds"]

\* firmware.rs:252-266.  module_name.as_bytes_with_nul() is the name followed
\* by its NUL.
prepare_module_name(self) ==
    IF self.err # "none" THEN self
    ELSE IF Len(self.module_name) # 0
        THEN push_internal(
                swap_nul_for_dot(push_internal(self, self.module_name \o NUL)),
                B_firmware_eq)
        ELSE push_internal(self, B_firmware_eq)

\* firmware.rs:271-273
prepare(self) == prepare_module_name(push_internal(self, NUL))

\* Faulty variant: an under-filled array is accepted.
build_checkMutant(this) == this.n <= this.N
\* firmware.rs:280  this.n == N
build_check(this) == this.n = this.N

\* firmware.rs:276-285: the builder after build(); `err` is set when no array
\* is produced.
build(self) ==
    LET this == push_internal(self, NUL) IN
    IF this.err # "none" THEN this
    ELSE IF build_check(this) THEN this
    ELSE [this EXCEPT !.err = "Length mismatch."]

\* Faulty variant: the final NUL is not counted.
build_lengthMutant(self) == self.n
\* firmware.rs:290-293
build_length(self) == self.n + 1

\* One operation of a `create` function: prepare() or push(bytes).
OpPrepare == [op |-> "prepare", bytes |-> <<>>]
OpPush(bytes) == [op |-> "push", bytes |-> bytes]

Apply(self, o) == IF o.op = "prepare" THEN prepare(self) ELSE push(self, o.bytes)

-----------------------------------------------------------------------------
(* drivers/gpu/nova-core/firmware.rs: the driver's builder *)

\* firmware.rs:9-23
make_entry_file(chipset, fw) ==
    << OpPrepare,
       OpPush(B_nvidia),
       OpPush(chipset),
       OpPush(B_gsp_dir),
       OpPush(fw),
       OpPush(B_dash),
       OpPush(B_version),
       OpPush(B_bin) >>

\* Faulty variant: booter_unload and bootloader are exchanged.
make_entry_chipsetMutant(chipset) ==
    make_entry_file(chipset, B_booter_load)
        \o make_entry_file(chipset, B_bootloader)
        \o make_entry_file(chipset, B_booter_unload)
        \o make_entry_file(chipset, B_gsp)
\* firmware.rs:25-30
make_entry_chipset(chipset) ==
    make_entry_file(chipset, B_booter_load)
        \o make_entry_file(chipset, B_booter_unload)
        \o make_entry_file(chipset, B_bootloader)
        \o make_entry_file(chipset, B_gsp)

RECURSIVE create_loop(_, _)
\* firmware.rs:38-41: the while loop over Chipset::NAMES, from index i on
create_loop(this, i) ==
    IF i <= Len(ChipsetNAMES)
        THEN create_loop(this \o make_entry_chipset(ChipsetNAMES[i]), i + 1)
        ELSE this

\* firmware.rs:32-44
create == create_loop(<<>>, 1)

-----------------------------------------------------------------------------
(* Chipset identification as a state machine: an ID arrives, try_from runs. *)

\* IDs offered to try_from: every value of the 9-bit field 28:20, and the
\* catalog IDs with higher bits set.
ChipIds ==
    (0..MaxChipId)
        \cup {ChipsetALL[i].value + k * (MaxChipId + 1) :
                i \in 1..Len(ChipsetALL), k \in 1..MaxHighBits}

ChipInit ==
    /\ chip_pc = "input"
    /\ chip_id \in ChipIds
    /\ chip_res = NoChipset

ChipIdle ==
    /\ chip_pc = "off"
    /\ chip_id = 0
    /\ chip_res = NoChipset

\* Chipset::try_from(value), gpu.rs:108-127
TryFrom ==
    /\ chip_pc = "input"
    /\ chip_res' = TryFromU32(chip_id)
    /\ chip_pc' = "identified"
    /\ UNCHANGED <<chip_id, timerVars, builderVars, numVars, nameVars, gpuVars>>

ChipNext == TryFrom

-----------------------------------------------------------------------------
(* The two passes of module_firmware! over a `create` function, given as its
   sequence of builder operations. *)

OpAlphabet == {OpPrepare, OpPush(<<>>), OpPush(B_a), OpPush(B_bc)}

\* Every sequence of at most MaxOps operations.
Progs == UNION {[1..k -> OpAlphabet] : k \in 0..MaxOps}

NoScenario == [kind |-> "ops", chip |-> 0, fw |-> <<>>]

Components == <<B_booter_load, B_booter_unload, B_bootloader, B_gsp>>

BuilderStart ==
    /\ bpc = "sizing"
    /\ ip = 1
    /\ sz = new(0, mname)
    /\ bd = new(0, mname)
    /\ szHist = <<>>
    /\ viaMacro = FALSE

\* Any short sequence of prepare/push calls, in a module named "" or "x".
BuilderInit ==
    /\ scen = NoScenario
    /\ prog \in Progs
    /\ mname \in {<<>>, B_x}
    /\ BuilderStart

\* The driver's create(), or one make_entry_file call alone (a catalog of one
\* chipset and one component).  __module_name() is "" in a loadable module and
\* the module's name when built in (firmware.rs:181-189, nova_core.rs:12).
ManifestInit ==
    /\ mname \in {<<>>, B_x, B_NovaCore}
    /\ \/ /\ scen = [kind |-> "driver", chip |-> 0, fw |-> <<>>]
          /\ prog = create
       \/ \E i \in 1..Len(ChipsetNAMES), j \in 1..Len(Components) :
            /\ scen = [kind |-> "entry", chip |-> i, fw |-> Components[j]]
            /\ prog = make_entry_file(ChipsetNAMES[i], Components[j])
    /\ BuilderStart

BuilderIdle ==
    /\ scen = NoScenario
    /\ prog = <<>>
    /\ mname = <<>>
    /\ bpc = "off"
    /\ ip = 1
    /\ sz = new(0, mname)
    /\ bd = new(0, mname)
    /\ szHist = <<>>
    /\ viaMacro = FALSE

\* One operation of create() in the sizing pass, ModInfoBuilder<0>.
SizingStep ==
    /\ bpc = "sizing"
    /\ ip <= Len(prog)
    /\ sz' = Apply(sz, prog[ip])
    /\ szHist' = Append(szHist, Apply(sz, prog[ip]).n)
    /\ ip' = ip + 1
    /\ UNCHANGED <<scen, prog, mname, bpc, bd, viaMacro, timerVars, chipVars, numVars, nameVars, gpuVars>>

\* firmware.rs:193: the array length is create(..).build_length(); the second
\* evaluation of create() starts from ModInfoBuilder::<N>::new.
BuildLength ==
    /\ bpc = "sizing"
    /\ ip > Len(prog)
    /\ bd' = new(build_length(sz), mname)
    /\ bpc' = "building"
    /\ ip' = 1
    /\ viaMacro' = TRUE
    /\ UNCHANGED <<scen, prog, mname, sz, szHist, timerVars, chipVars, numVars, nameVars, gpuVars>>

\* ModInfoBuilder::<N>::new called with a capacity the caller declares.
DeclareCapacity ==
    /\ bpc = "sizing"
    /\ ip = 1
    /\ szHist = <<>>
    /\ \E N \in 0..MaxCapacity : bd' = new(N, mname)
    /\ bpc' = "building"
    /\ viaMacro' = FALSE
    /\ UNCHANGED <<scen, prog, mname, sz, szHist, ip, timerVars, chipVars, numVars, nameVars, gpuVars>>

\* One operation of create() in the building pass; a build_error! or a panic
\* ends the evaluation.
BuildingStep ==
    /\ bpc = "building"
    /\ ip <= Len(prog)
    /\ bd' = Apply(bd, prog[ip])
    /\ ip' = ip + 1
    /\ bpc' = IF Apply(bd, prog[ip]).err # "none" THEN "failed" ELSE "building"
    /\ UNCHANGED <<scen, prog, mname, sz, szHist, viaMacro, timerVars, chipVars, numVars, nameVars, gpuVars>>

\* firmware.rs:194: create(..).build()
Build ==
    /\ bpc = "building"
    /\ ip > Len(prog)
    /\ bd' = build(bd)
    /\ bpc' = IF build(bd).err # "none" THEN "failed" ELSE "built"
    /\ UNCHANGED <<scen, prog, mname, sz, szHist, ip, viaMacro, timerVars,
                   chipVars, numVars, nameVars, gpuVars>>

RECURSIVE RunOps(_, _, _)
\* create() evaluated on builder b: the operations of p from index k on.
RunOps(b, p, k) == IF k > Len(p) THEN b ELSE RunOps(Apply(b, p[k]), p, k + 1)

\* firmware.rs:193-194, both passes at once: the builder after
\* create(__module_name()).build(), its capacity being
\* create(__module_name()).build_length().
ModuleFirmware(p, m) ==
    build(RunOps(new(build_length(RunOps(new(0, m), p, 1)), m), p, 1))

BuilderNext ==
    \/ SizingStep
    \/ BuildLength
    \/ DeclareCapacity
    \/ BuildingStep
    \/ Build

ManifestNext ==
    \/ SizingStep
    \/ BuildLength
    \/ BuildingStep
    \/ Build

-----------------------------------------------------------------------------
(* drivers/gpu/nova-core/gpu.rs: Gpu::new, with Spec::new and Firmware::new *)

GNone == [kind |-> "none", err |-> "none"]
GOk == [kind |-> "Ok", err |-> "none"]
GErr(e) == [kind |-> "Err", err |-> e]

NoSpec == [chipset |-> "none", major |-> 0, minor |-> 0]

\* impl fmt::Display for Chipset, gpu.rs:98-102: the Debug name of the
\* variant, which is its identifier.
Display(variant) ==
    ChipsetALL[CHOOSE i \in 1..Len(ChipsetALL) :
                    ChipsetALL[i].variant = variant].ident

\* chip_name.make_ascii_lowercase(), gpu.rs:189
make_ascii_lowercase(s) == [i \in 1..Len(s) |-> to_ascii_lowercase(s[i])]

\* "535.113.01", the version Gpu::new passes to Firmware::new (gpu.rs:219)
FwVersion == <<53, 51, 53, 46, 49, 49, 51, 46, 48, 49>>

\* Faulty variant: the name and the version are joined by an underscore.
FirmwarePathMutant(chip, name_, ver) ==
    <<110, 118, 105, 100, 105, 97, 47>> \o chip \o <<47, 103, 115, 112, 47>>
        \o name_ \o <<95>> \o ver \o <<46, 98, 105, 110>>
\* fmt!("nvidia/{}/gsp/{}-{}.bin", &*chip_name, name_, ver), gpu.rs:192
FirmwarePath(chip, name_, ver) ==
    <<110, 118, 105, 100, 105, 97, 47>> \o chip \o <<47, 103, 115, 112, 47>>
        \o name_ \o <<45>> \o ver \o <<46, 98, 105, 110>>

\* Faulty variant: bootloader is requested before booter_unload.
FirmwareFieldsMutant == <<
    <<98, 111, 111, 116, 101, 114, 95, 108, 111, 97, 100>>,
    <<98, 111, 111, 116, 108, 111, 97, 100, 101, 114>>,
    <<98, 111, 111, 116, 101, 114, 95, 117, 110, 108, 111, 97, 100>>,
    <<103, 115, 112>> >>
\* The names handed to the request closure, in the order the fields of the
\* struct expression are evaluated: "booter_load", "booter_unload",
\* "bootloader", "gsp" (gpu.rs:197-200).
FirmwareFields == <<
    <<98, 111, 111, 116, 101, 114, 95, 108, 111, 97, 100>>,
    <<98, 111, 111, 116, 101, 114, 95, 117, 110, 108, 111, 97, 100>>,
    <<98, 111, 111, 116, 108, 111, 97, 100, 101, 114>>,
    <<103, 115, 112>> >>

\* Errors firmware::Firmware::request may return (Error::from_errno of what
\* request_firmware returned).
RequestErrors == {"ENOENT", "EAGAIN"}

\* Raw values of the boot register: every value of bits 28:20, with the bits
\* above (31:29) and between (19:8) all clear or all set, and a few revisions.
RevSamples == {0, 9, 15}

Boot0Values ==
    {<<(top * 2^13 + id * 2^4 + mid) % 2^16, low * 2^8 + major * 2^4 + minor>> :
        top \in {0, 7}, id \in 0..MaxChipId, mid \in {0, 15},
        low \in {0, 255}, major \in RevSamples, minor \in RevSamples}

GpuInit ==
    /\ gpu_pc = "spec_new"
    /\ bar_ok \in BOOLEAN
    /\ boot0 \in Boot0Values
    /\ decoded = 0
    /\ gpu_spec = NoSpec
    /\ chip_name = <<>>
    /\ requested = <<>>
    /\ outcomes = <<>>
    /\ held = 0
    /\ gpu_res = GNone

GpuIdle ==
    /\ gpu_pc = "off"
    /\ bar_ok = FALSE
    /\ boot0 = <<0, 0>>
    /\ decoded = 0
    /\ gpu_spec = NoSpec
    /\ chip_name = <<>>
    /\ requested = <<>>
    /\ outcomes = <<>>
    /\ held = 0
    /\ gpu_res = GNone

\* Spec::new, gpu.rs:165-175, called at gpu.rs:218
SpecNew ==
    /\ gpu_pc = "spec_new"
    /\ IF ~bar_ok
          THEN /\ gpu_res' = GErr("ENXIO")
               /\ gpu_pc' = "done"
               /\ UNCHANGED <<decoded, gpu_spec>>
          ELSE /\ decoded' = Boot0_chipset(boot0)
               /\ IF TryFromU32(Boot0_chipset(boot0)).kind = "Err"
                     THEN /\ gpu_res' = GErr(TryFromU32(Boot0_chipset(boot0)).err)
                          /\ gpu_pc' = "done"
                          /\ UNCHANGED gpu_spec
                     ELSE /\ gpu_spec' =
                                [chipset |-> TryFromU32(Boot0_chipset(boot0)).variant,
                                 major |-> Boot0_major_rev(boot0),
                                 minor |-> Boot0_minor_rev(boot0)]
                          /\ gpu_pc' = "chip_name"
                          /\ UNCHANGED gpu_res
    /\ UNCHANGED <<bar_ok, boot0, chip_name, requested, outcomes, held>>
    /\ UNCHANGED <<timerVars, chipVars, builderVars, numVars, nameVars>>

\* Firmware::new, gpu.rs:188-189: the chipset's name, lowercased.  The
\* allocation of the CString may fail.
ChipName ==
    /\ gpu_pc = "chip_name"
    /\ \E ok \in BOOLEAN :
          IF ok
             THEN /\ chip_name' = make_ascii_lowercase(Display(gpu_spec.chipset))
                  /\ gpu_pc' = "request"
                  /\ UNCHANGED gpu_res
             ELSE /\ gpu_res' = GErr("ENOMEM")
                  /\ gpu_pc' = "done"
                  /\ UNCHANGED chip_name
    /\ UNCHANGED <<bar_ok, boot0, decoded, gpu_spec, requested, outcomes, held>>
    /\ UNCHANGED <<timerVars, chipVars, builderVars, numVars, nameVars>>

\* One call of the request closure, gpu.rs:191-200: the path is formatted
\* (the allocation may fail), then firmware::Firmware::request is called.  An
\* error leaves Firmware::new through `?`, dropping the blobs already held
\* (firmware.rs:104-109).
Request ==
    /\ gpu_pc = "request"
    /\ Len(outcomes) < Len(FirmwareFields)
    /\ LET name_ == FirmwareFields[Len(outcomes) + 1]
           path == FirmwarePath(chip_name, name_, FwVersion)
       IN  \/ /\ outcomes' = Append(outcomes, "ENOMEM")
              /\ gpu_res' = GErr("ENOMEM")
              /\ held' = 0
              /\ gpu_pc' = "done"
              /\ UNCHANGED requested
           \/ \E e \in RequestErrors :
                /\ requested' = Append(requested, [name |-> name_, path |-> path])
                /\ outcomes' = Append(outcomes, e)
                /\ gpu_res' = GErr(e)
                /\ held' = 0
                /\ gpu_pc' = "done"
           \/ /\ requested' = Append(requested, [name |-> name_, path |-> path])
              /\ outcomes' = Append(outcomes, "ok")
              /\ held' = held + 1
              /\ gpu_pc' = IF Len(outcomes) + 1 = Len(FirmwareFields)
                              THEN "finish" ELSE "request"
              /\ UNCHANGED gpu_res
    /\ UNCHANGED <<bar_ok, boot0, decoded, gpu_spec, chip_name>>
    /\ UNCHANGED <<timerVars, chipVars, builderVars, numVars, nameVars>>

\* gpu.rs:221-238: the log line and the initializer; Gpu::new returns Ok.
Finish ==
    /\ gpu_pc = "finish"
    /\ gpu_res' = GOk
    /\ gpu_pc' = "done"
    /\ UNCHANGED <<bar_ok, boot0, decoded, gpu_spec, chip_name, requested,
                   outcomes, held>>
    /\ UNCHANGED <<timerVars, chipVars, builderVars, numVars, nameVars>>

GpuNext ==
    \/ SpecNew
    \/ ChipName
    \/ Request
    \/ Finish

-----------------------------------------------------------------------------
(* The derivation of a symbolic name from a declared name, as Chipset::NAMES
   does it for each variant: to_lowercase_bytes::<{ s.len() }>(s). *)

\* Bytes around the uppercase range: 0 @ A Z [ a z
NameAlphabet == {48, 64, 65, 90, 91, 97, 122}

\* The declared names of the catalog, and every short string over
\* NameAlphabet.
NameInputs ==
    {ChipsetALL[i].ident : i \in 1..Len(ChipsetALL)}
        \cup UNION {[1..k -> NameAlphabet] : k \in 0..MaxNameLen}

NameInit ==
    /\ name_pc = "input"
    /\ name_in \in NameInputs
    /\ name_out = <<>>

NameIdle ==
    /\ name_pc = "off"
    /\ name_in = <<>>
    /\ name_out = <<>>

\* gpu.rs:44-46
DeriveName ==
    /\ name_pc = "input"
    /\ name_out' = to_lowercase_bytes(Len(name_in), name_in)
    /\ name_pc' = "derived"
    /\ UNCHANGED <<name_in, timerVars, chipVars, builderVars, numVars, gpuVars>>

NameNext == DeriveName

-----------------------------------------------------------------------------
(* from_u32s and into_u32s applied to a pair of halves and to a 64-bit value,
   each followed by the other function. *)

NumInit ==
    /\ pair_pc = "input"
    /\ value_pc = "input"
    /\ n_high \in 0..(Word - 1)
    /\ n_low \in 0..(Word - 1)
    /\ n_x \in 0..U64Max
    /\ n_joined = 0
    /\ n_back = <<0, 0>>
    /\ n_split = <<0, 0>>
    /\ n_rejoined = 0

NumIdle ==
    /\ pair_pc = "off"
    /\ value_pc = "off"
    /\ n_high = 0
    /\ n_low = 0
    /\ n_x = 0
    /\ n_joined = 0
    /\ n_back = <<0, 0>>
    /\ n_split = <<0, 0>>
    /\ n_rejoined = 0

\* u64::from_u32s(high, low)
FromU32s ==
    /\ pair_pc = "input"
    /\ n_joined' = from_u32s(n_high, n_low)
    /\ pair_pc' = "joined"
    /\ UNCHANGED <<value_pc, n_high, n_low, n_back, n_x, n_split, n_rejoined>>
    /\ UNCHANGED <<timerVars, chipVars, builderVars, nameVars, gpuVars>>

\* u64::from_u32s(high, low).into_u32s()
IntoU32sBack ==
    /\ pair_pc = "joined"
    /\ n_back' = into_u32s(n_joined)
    /\ pair_pc' = "back"
    /\ UNCHANGED <<value_pc, n_high, n_low, n_joined, n_x, n_split, n_rejoined>>
    /\ UNCHANGED <<timerVars, chipVars, builderVars, nameVars, gpuVars>>

\* x.into_u32s()
IntoU32s ==
    /\ value_pc = "input"
    /\ n_split' = into_u32s(n_x)
    /\ value_pc' = "split"
    /\ UNCHANGED <<pair_pc, n_high, n_low, n_joined, n_back, n_x, n_rejoined>>
    /\ UNCHANGED <<timerVars, chipVars, builderVars, nameVars, gpuVars>>

\* let (high, low) = x.into_u32s(); u64::from_u32s(high, low)
FromU32sBack ==
    /\ value_pc = "split"
    /\ n_rejoined' = from_u32s(n_split[1], n_split[2])
    /\ value_pc' = "rejoined"
    /\ UNCHANGED <<pair_pc, n_high, n_low, n_joined, n_back, n_x, n_split>>
    /\ UNCHANGED <<timerVars, chipVars, builderVars, nameVars, gpuVars>>

NumNext ==
    \/ FromU32s
    \/ IntoU32sBack
    \/ IntoU32s
    \/ FromU32sBack

-----------------------------------------------------------------------------
(* Specifications *)

TimerOnly ==
    TimerInit /\ ChipIdle /\ BuilderIdle /\ NumIdle /\ NameIdle /\ GpuIdle

ChipOnly ==
    ChipInit /\ TimerIdle /\ BuilderIdle /\ NumIdle /\ NameIdle /\ GpuIdle

BuilderOnly ==
    BuilderInit /\ TimerIdle /\ ChipIdle /\ NumIdle /\ NameIdle /\ GpuIdle

ManifestOnly ==
    ManifestInit /\ TimerIdle /\ ChipIdle /\ NumIdle /\ NameIdle /\ GpuIdle

ReadOnly ==
    ReadInit /\ ChipIdle /\ BuilderIdle /\ NumIdle /\ NameIdle /\ GpuIdle

NumOnly ==
    NumInit /\ TimerIdle /\ ChipIdle /\ BuilderIdle /\ NameIdle /\ GpuIdle

NameOnly ==
    NameInit /\ TimerIdle /\ ChipIdle /\ BuilderIdle /\ NumIdle /\ GpuIdle

GpuOnly ==
    GpuInit /\ TimerIdle /\ ChipIdle /\ BuilderIdle /\ NumIdle /\ NameIdle

TimerSpec == TimerOnly /\ [][TimerNext]_vars

\* One call of Timer::read.  The thread inside it keeps running: each of its
\* three reads is eventually executed.  Nothing is assumed of the counter.
ReadSpec ==
    /\ ReadOnly
    /\ [][ReadNext]_vars
    /\ WF_vars(ReadHi)
    /\ WF_vars(ReadLo)
    /\ WF_vars(ReadHi2)

ChipsetSpec == ChipOnly /\ [][ChipNext]_vars

BuilderSpec == BuilderOnly /\ [][BuilderNext]_vars

ManifestSpec == ManifestOnly /\ [][ManifestNext]_vars

\* wait_on run by a thread that keeps running, every Timer::read returning.
\* Nothing is assumed of the counter (it may stop at any point) nor of cond().
WaitSpec ==
    /\ TimerOnly
    /\ [][WaitNext]_vars
    /\ WF_vars(ReadReturns)
    /\ WF_vars(Start)
    /\ WF_vars(Cond)
    /\ WF_vars(Check)

NumSpec == NumOnly /\ [][NumNext]_vars

NamesSpec == NameOnly /\ [][NameNext]_vars

GpuSpec == GpuOnly /\ [][GpuNext]_vars

Init ==
    \/ TimerOnly
    \/ ChipOnly
    \/ BuilderOnly
    \/ ManifestOnly
    \/ ReadOnly
    \/ NumOnly
    \/ NameOnly
    \/ GpuOnly

Next ==
    \/ Tick
    \/ WaitOn
    \/ ReadHi
    \/ ReadLo
    \/ ReadHi2
    \/ ReadReturns
    \/ Start
    \/ Cond
    \/ Check
    \/ TryFrom
    \/ SizingStep
    \/ BuildLength
    \/ DeclareCapacity
    \/ BuildingStep
    \/ Build
    \/ FromU32s
    \/ IntoU32sBack
    \/ IntoU32s
    \/ FromU32sBack
    \/ DeriveName
    \/ SpecNew
    \/ ChipName
    \/ Request
    \/ Finish

Spec == Init /\ [][Next]_vars

-----------------------------------------------------------------------------
(* Properties of Timer::read and Timer::wait_on *)

ReadReturned == pc \in {"start", "check"}

\* C1: Timer::read never returns a torn value.  Whenever Timer::read has
\* returned, the value is the one the counter held at the moment the low half
\* was read; and when the high half differs at the second high-half read, the
\* step taken is a retry (back to the first read), never a return.
C1_ReadNeverTorn ==
    /\ [](ReadReturned => ret = atLo)
    /\ [][(pc = "read_hi2" /\ hi # PtimerTime1Read /\ pc' # pc)
            => (pc' = "read_hi" /\ ret' = ret)]_vars

\* A read that returned after at least one retry, i.e. after the high half
\* changed between the two high-half reads of an earlier iteration.
C1_Witness == ReadReturned /\ retried /\ ret = atLo /\ ret % Word = 0 /\ ret > 0

\* C2: when cond() yields a value on its first evaluation, wait_on returns Ok
\* with that value, whatever the timeout and the clock; before that first
\* evaluation no stall or deadline check has run and nothing has been returned.
C2_FirstEvalSomeIsOk ==
    /\ (firstEval = "pending" =>
            ~polled /\ result = NoResult /\ failCause = "none" /\ num_reads = 0)
    /\ (firstEval = "some" =>
            pc = "done" /\ condRet.some /\ result = Ok(condRet.val) /\ ~polled)

\* Ok on the first evaluation with a zero timeout and the clock at its maximum.
C2_Witness ==
    /\ firstEval = "some"
    /\ timeout = 0
    /\ startTime = U64Max
    /\ result.kind = "Ok"

\* C3: with cond() never yielding, a poll whose clock reading is past
\* start + timeout ends wait_on with ETIMEDOUT; Ok is returned only with a
\* value cond() yielded.
C3_PastDeadlineTimesOut ==
    /\ (polled /\ lastReading > startTime + TimeoutNanos(timeout))
            => (pc = "done" /\ result = Err("ETIMEDOUT"))
    /\ (result.kind = "Ok" => condRet.some /\ result.val = condRet.val)

\* The clock jumped past the deadline (not onto it) and the poll failed.
C3_Witness ==
    /\ polled
    /\ timeout = 1
    /\ lastReading > startTime + TimeoutNanos(timeout)
    /\ result = Err("ETIMEDOUT")
    /\ failCause = "deadline"

\* C4 as stated: the 16th consecutive poll whose reading equals the previous
\* reading fails with ETIMEDOUT.
C4_Original ==
    (polled /\ sameRun = MAX_STALLED_READS) => result = Err("ETIMEDOUT")

\* C4 (amended): with cond() never yielding and the reading identical, the
\* first 16 consecutive unchanged polls only count (the stall counter reaches
\* 16 at the 16th); the 17th consecutive unchanged poll fails with ETIMEDOUT,
\* whether or not the deadline has been reached.
C4_StallFailsAt17th ==
    /\ sameRun <= MAX_STALLED_READS + 1
    /\ (sameRun \in 1..MAX_STALLED_READS =>
            /\ num_reads = sameRun
            /\ result.kind # "Err"
            /\ failCause = "none")
    /\ (sameRun = MAX_STALLED_READS + 1 =>
            /\ pc = "done"
            /\ result = Err("ETIMEDOUT")
            /\ failCause = "stall")
    /\ (failCause = "stall" => sameRun = MAX_STALLED_READS + 1)

\* A stall failure while the deadline is still ahead of the clock reading.
C4_Witness ==
    /\ failCause = "stall"
    /\ sameRun = MAX_STALLED_READS + 1
    /\ result = Err("ETIMEDOUT")
    /\ cur_time < deadline

\* C5: wait_on ends either with Ok(v), v a value cond() yielded, or with the
\* error ETIMEDOUT; the stall failure and the deadline failure return the
\* same error value.
C5_TwoOutcomes ==
    /\ result.kind \in {"none", "Ok", "Err"}
    /\ (pc = "done" <=> result.kind \in {"Ok", "Err"})
    /\ (result.kind = "Ok" =>
            /\ condRet.some
            /\ result = Ok(condRet.val)
            /\ result.val \in 1..MaxCondValue
            /\ failCause = "none")
    /\ (result.kind = "Err" <=> failCause \in {"stall", "deadline"})
    /\ (result.kind = "Err" => result = Err("ETIMEDOUT"))

\* The stalled-clock failure, returned as ETIMEDOUT.
C5_Witness == failCause = "stall" /\ result = Err("ETIMEDOUT") /\ pc = "done"

\* The first closure of wait_on has run in the current call: the deadline is
\* set.
Started ==
    \/ pc \in {"cond", "check", "done"}
    \/ pc \in {"read_hi", "read_lo", "read_hi2"} /\ caller = "loop"

\* C14: the deadline of a wait is min(start + t, 2^64 - 1), where start is the
\* clock reading taken on entry and t is the timeout in nanoseconds clamped to
\* 2^64 - 1; it is never smaller than start, so a huge timeout never wraps
\* into a deadline in the past.
C14_DeadlineSaturates ==
    Started =>
        LET t == IF timeout >= Word * Word - 1 THEN Word * Word - 1 ELSE timeout
            sum == startTime + t
        IN  /\ deadline = (IF sum <= Word * Word - 1 THEN sum ELSE Word * Word - 1)
            /\ deadline >= startTime
            /\ deadline <= Word * Word - 1

\* A timeout that does not fit a u64, added to a non-zero start: the sum would
\* wrap, the deadline is u64::MAX.
C14_Witness ==
    /\ Started
    /\ timeout > U64Max
    /\ startTime > 0
    /\ deadline = U64Max

\* C20: at every point of the polling loop the stall counter num_reads equals
\* the number of consecutive clock readings equal to the reading before them,
\* counted since the last changed reading (or since entry), and prev_time is
\* the latest reading; the counter never exceeds 16; a reading that differs
\* resets the counter to 0 and becomes the previous reading, a reading that
\* does not differ adds one and leaves the previous reading alone.
C20_StallCounter ==
    /\ [](num_reads \in 0..16)
    /\ []((Started /\ pc # "done") =>
            /\ num_reads = sameRun
            /\ prev_time = lastReading)
    /\ [][(pc = "check" /\ pc' = "cond" /\ ret # prev_time)
            => (num_reads' = 0 /\ prev_time' = ret)]_vars
    /\ [][(pc = "check" /\ pc' = "cond" /\ ret = prev_time)
            => (num_reads' = num_reads + 1 /\ prev_time' = prev_time)]_vars

\* Two stalled readings counted after a changed reading reset the counter.
C20_Witness ==
    /\ pc = "cond"
    /\ num_reads = 2
    /\ sameRun = 2
    /\ prev_time > startTime

\* C19: in every iteration of wait_on's loop cond() is evaluated before the
\* clock is read: a clock read of the loop starts only from an evaluation that
\* yielded nothing.  An evaluation that yields a value ends the call with Ok
\* of that value; after it nothing is read and cond() is not evaluated again
\* in this call; wait_on never returns a timeout when its last evaluation of
\* cond() yielded a value, wherever the real clock stands.
C19_CondBeforeClock ==
    /\ [](condRet.some => (pc = "done" /\ result = Ok(condRet.val)))
    /\ [](result.kind = "Err" => ~condRet.some)
    /\ []((pc \in {"read_hi", "read_lo", "read_hi2", "check"} /\ caller = "loop")
            => (~condRet.some /\ firstEval = "none"))
    /\ [][(pc = "cond" /\ pc' # pc) =>
            IF condRet'.some
                THEN /\ pc' = "done"
                     /\ result' = Ok(condRet'.val)
                     /\ UNCHANGED <<hi, lo, ret, cur_time, prev_time, num_reads>>
                ELSE /\ pc' = "read_hi"
                     /\ caller' = "loop"
                     /\ result' = NoResult]_vars
    /\ [][(pc' = "read_hi" /\ caller' = "loop" /\ pc # "read_hi")
            => pc \in {"cond", "read_hi2"}]_vars
    /\ [][pc = "done" =>
            \/ UNCHANGED <<pc, condRet, result, hi, lo, ret, cur_time>>
            \/ pc' = "read_hi" /\ caller' = "entry" /\ result' = NoResult]_vars

\* Ok returned by a later evaluation while the real clock is past the deadline
\* and the last reading was still before it.
C19_Witness ==
    /\ pc = "done"
    /\ result.kind = "Ok"
    /\ polled
    /\ cur_time < deadline
    /\ clock > deadline

\* C21: wait_on never reports a premature timeout.  The step that returns
\* ETIMEDOUT is the check of a reading just taken, and either that reading
\* differs from the previous one and is at or past the deadline, or it equals
\* the previous one and the stall counter had already reached 16.  A reading
\* equal to the previous one is never tested against the deadline (below the
\* threshold it only counts, even at or past the deadline), and a differing
\* reading strictly below the deadline never fails.
C21_NoPrematureTimeout ==
    /\ [][(result.kind # "Err" /\ result'.kind = "Err") =>
            /\ pc = "check"
            /\ pc' = "done"
            /\ result' = Err("ETIMEDOUT")
            /\ cur_time' = ret
            /\ \/ ret # prev_time /\ ret >= deadline
               \/ ret = prev_time /\ num_reads >= 16]_vars
    /\ [][(pc = "check" /\ pc' # pc /\ ret = prev_time /\ num_reads < 16) =>
            (pc' = "cond" /\ result' = result /\ result.kind = "none")]_vars
    /\ [][(pc = "check" /\ pc' # pc /\ ret # prev_time /\ ret < deadline) =>
            (pc' = "cond" /\ result' = result /\ result.kind = "none")]_vars
    /\ [](failCause = "deadline" =>
            (cur_time # prev_time /\ cur_time >= deadline))
    /\ [](failCause = "stall" => (cur_time = prev_time /\ num_reads = 16))

\* An unchanged reading that sits on the deadline (timeout 0, clock frozen)
\* was polled and only counted: no failure.
C21_Witness ==
    /\ pc = "cond"
    /\ polled
    /\ cur_time = prev_time
    /\ cur_time >= deadline
    /\ num_reads >= 1
    /\ result = NoResult

\* C22: with a counter that never goes backwards and every Timer::read
\* returning, every call of wait_on returns, with Ok or with ETIMEDOUT,
\* whatever the counter does otherwise (advancing, slow, or frozen from any
\* point on) and whatever cond() yields.
C22_WaitOnTerminates ==
    /\ (pc \in {"read_hi", "start", "cond", "check"}) ~> (pc = "done")
    /\ [](pc = "done" => (result.kind = "Ok" \/ result = Err("ETIMEDOUT")))

\* A wait with a timeout beyond u64::MAX ended by the stall limit, the counter
\* frozen before the deadline.
C22_Witness ==
    /\ pc = "done"
    /\ timeout > U64Max
    /\ failCause = "stall"
    /\ result = Err("ETIMEDOUT")
    /\ clock < deadline

InRead == pc \in {"read_hi", "read_lo", "read_hi2"}

\* C18: every iteration of Timer::read reads the high half, then the low
\* half, then the high half again.  The iteration returns exactly when its two
\* high-half reads are equal, with the value made of the first high read and
\* the low read; otherwise it starts the next iteration, however many
\* iterations came before.  A running read whose thread keeps running returns
\* once the high half stays unchanged across an iteration (the counter of the
\* model stops changing at its maximum at the latest).
C18_ReadRetries ==
    /\ [][(pc = "read_hi" /\ pc' # pc)
            => (pc' = "read_lo" /\ hi' = clock \div Word)]_vars
    /\ [][(pc = "read_lo" /\ pc' # pc)
            => (pc' = "read_hi2" /\ lo' = clock % Word /\ hi' = hi)]_vars
    /\ [][(pc = "read_hi2" /\ pc' # pc) =>
            IF hi = clock \div Word
                THEN pc' \in {"start", "check"} /\ ret' = hi * Word + lo
                ELSE pc' = "read_hi" /\ ret' = ret]_vars
    /\ [][(InRead /\ pc' \in {"start", "check"})
            => (pc = "read_hi2" /\ hi = clock \div Word)]_vars
    /\ (InRead ~> ReadReturned)

\* A read that returned after retrying, the high half having changed between
\* the two high reads of an earlier iteration.
C18_Witness ==
    /\ ReadReturned
    /\ retried
    /\ ret \div Word = Word - 1
    /\ ret = atLo

-----------------------------------------------------------------------------
(* Properties of chipset identification *)

CatalogIds == {ChipsetALL[i].value : i \in 1..Len(ChipsetALL)}

\* C6: identification returns, for a catalog ID, the variant whose declared
\* discriminant is that ID (0x162 gives the first variant of Chipset::ALL,
\* TU102), and ENODEV for every other ID: the accepted IDs are exactly the
\* discriminants of Chipset::ALL.
C6_IdentifyMatchesCatalog ==
    chip_pc = "identified" =>
        /\ (chip_id \in CatalogIds =>
                /\ chip_res.kind = "Ok"
                /\ chip_res.variant \in Variants
                /\ Discriminant(chip_res.variant) = chip_id)
        /\ (chip_id \notin CatalogIds => chip_res = ErrChipset("ENODEV"))
        /\ (chip_id = \H162 => chip_res = OkChipset(ChipsetALL[1].variant))
        /\ (chip_res.kind = "Ok" <=> chip_id \in CatalogIds)

\* 0x167 identified as TU117, the variant declared with that discriminant.
C6_Witness ==
    /\ chip_pc = "identified"
    /\ chip_id = \H167
    /\ chip_res = OkChipset("TU117")

-----------------------------------------------------------------------------
(* Properties of the manifest builder *)

\* The bytes one operation appends, as the documentation of ModInfoBuilder
\* describes them: prepare() starts an entry with a NUL and the key
\* "<module>.firmware=" ("firmware=" for an empty module name).
KeyOf(m) == IF m = <<>> THEN B_firmware_eq ELSE m \o <<46>> \o B_firmware_eq

BytesOf(o, m) == IF o.op = "prepare" THEN NUL \o KeyOf(m) ELSE o.bytes

RECURSIVE Pushed(_, _, _)
\* The bytes the first k operations of p append.
Pushed(p, m, k) == IF k = 0 THEN <<>> ELSE Pushed(p, m, k - 1) \o BytesOf(p[k], m)

\* No push() comes before the first prepare().
PrepareFirst == prog = <<>> \/ prog[1].op = "prepare"

TwoPassesAgree ==
    /\ bpc # "failed"
    /\ bd.err = "none"
    /\ sz.N = 0
    /\ sz.buf = <<>>
    /\ Len(szHist) = Len(prog)
    /\ sz.n = Len(Pushed(prog, mname, Len(prog)))
    /\ bd.N = sz.n + 1
    /\ (bpc = "building" => bd.n = IF ip = 1 THEN 0 ELSE szHist[ip - 1])
    /\ (bpc = "built" => bd.n = bd.N /\ bd.n = sz.n + 1)

\* C7 as stated: for any sequence of prepare/push operations the building pass
\* with N = build_length() follows the sizing pass and build() succeeds.
C7_Original ==
    (viaMacro /\ bpc \in {"building", "built", "failed"}) => TwoPassesAgree

\* C7 (amended): for any sequence of prepare/push operations in which no push
\* comes before the first prepare, the building pass with N = build_length()
\* of the sizing pass has the same length counter as the sizing pass after
\* every operation, the sizing pass writes nothing, and build() succeeds with
\* the cursor equal to N = sizing.final_length + 1.
C7_PassesAgreeAfterPrepare ==
    (viaMacro /\ PrepareFirst /\ bpc \in {"building", "built", "failed"})
        => TwoPassesAgree

\* A built array after MaxOps operations, with pushes and a module name.
C7_Witness ==
    /\ viaMacro
    /\ bpc = "built"
    /\ Len(prog) = MaxOps
    /\ mname = B_x
    /\ prog[1].op = "prepare"
    /\ prog[Len(prog)] = OpPush(B_bc)
    /\ bd.n = sz.n + 1

\* C16: prepare() must be called before push().  When the first operation
\* on the new builder is a push, the two-pass build of module_firmware! fails:
\* the sizing pass runs through, the building pass stops at that first push
\* with "Must call prepare() before push()." and no array is ever produced.
\* A push is refused only there: once prepare() has run, no later push is
\* refused, in either pass and for any capacity.
C16_PrepareBeforePush ==
    /\ sz.err = "none"
    /\ (viaMacro /\ ~PrepareFirst) =>
            /\ bpc \in {"building", "failed"}
            /\ bd.N >= 1
            /\ (bpc = "building" => ip = 1)
            /\ (bpc = "failed" =>
                    /\ ip = 2
                    /\ bd.n = 0
                    /\ bd.err = "Must call prepare() before push().")
    /\ (bd.err = "Must call prepare() before push().") =>
            /\ bpc = "failed"
            /\ ip = 2
            /\ prog[1].op = "push"
            /\ bd.N # 0

\* A push first, a prepare second: the building pass of the macro has failed
\* at the push.
C16_Witness ==
    /\ viaMacro
    /\ bpc = "failed"
    /\ Len(prog) = MaxOps
    /\ prog[1] = OpPush(B_a)
    /\ prog[2] = OpPrepare
    /\ bd.err = "Must call prepare() before push()."

\* C9: build() produces the array only if the cursor after the final NUL is
\* exactly N; then all N bytes are the pushed bytes, none dropped.  Whenever
\* the pushed bytes and the terminator exceed N or fall short of N, the
\* evaluation ends in a build failure and no array is produced.
C9_NoTruncatedBuffer ==
    /\ (bpc = "built" =>
            /\ bd.err = "none"
            /\ bd.n = bd.N
            /\ Len(bd.buf) = bd.N
            /\ bd.buf = Pushed(prog, mname, Len(prog)) \o NUL)
    /\ (bpc = "failed" <=> bd.err # "none")
    /\ (bpc \in {"built", "failed"}
            /\ bd.N # Len(Pushed(prog, mname, Len(prog))) + 1
            => bpc = "failed")

\* A capacity smaller than the bytes pushed: a length mismatch, no array.
C9_Witness ==
    /\ ~viaMacro
    /\ bpc = "failed"
    /\ bd.err = "Length mismatch."
    /\ bd.N > 0
    /\ bd.n > bd.N

NulPositions(s) == {i \in 1..Len(s) : s[i] = 0}

\* The sequence of fields of s, split at every NUL byte.
SplitNul(s) ==
    LET Z == NulPositions(s)
        m == Cardinality(Z)
        cut == [k \in 0..(m + 1) |->
                    IF k = 0 THEN 0
                    ELSE IF k = m + 1 THEN Len(s) + 1
                    ELSE CHOOSE i \in Z : Cardinality({j \in Z : j <= i}) = k]
    IN  [k \in 1..(m + 1) |-> SubSeq(s, cut[k - 1] + 1, cut[k] - 1)]

\* The lowercase chipset names, in catalog order.
LowerNames == <<
    <<116, 117, 49, 48, 50>>,
    <<116, 117, 49, 48, 52>>,
    <<116, 117, 49, 48, 54>>,
    <<116, 117, 49, 49, 55>>,
    <<116, 117, 49, 49, 54>>,
    <<103, 97, 49, 48, 50>>,
    <<103, 97, 49, 48, 51>>,
    <<103, 97, 49, 48, 52>>,
    <<103, 97, 49, 48, 54>>,
    <<103, 97, 49, 48, 55>>,
    <<97, 100, 49, 48, 50>>,
    <<97, 100, 49, 48, 51>>,
    <<97, 100, 49, 48, 52>>,
    <<97, 100, 49, 48, 54>>,
    <<97, 100, 49, 48, 55>>>>

\* "nvidia/<chipset>/gsp/<component>-535.113.01.bin"
PathOf(chipset, component) ==
    << 110, 118, 105, 100, 105, 97, 47 >> \o chipset
        \o << 47, 103, 115, 112, 47 >> \o component
        \o << 45, 53, 51, 53, 46, 49, 49, 51, 46, 48, 49, 46, 98, 105, 110 >>

OneEntryOfGsp ==
    /\ bpc = "built"
    /\ scen.kind = "entry"
    /\ scen.fw = B_gsp
    /\ mname = B_x

\* C8 as stated: the bytes decode to ["x.firmware=", path, ""].
C8_Original ==
    OneEntryOfGsp =>
        SplitNul(bd.buf) =
            << B_x \o <<46>> \o B_firmware_eq,
               PathOf(LowerNames[scen.chip], B_gsp),
               <<>> >>

\* C8 (amended): for one chipset and the component "gsp" in a module named
\* "x", the bytes decode, split on NUL, to
\* ["", "x.firmware=nvidia/<lowercased-chipset>/gsp/gsp-535.113.01.bin", ""]:
\* the array starts with a NUL and the key "x.firmware=" is the prefix of the
\* path's own entry, not an entry of its own.
C8_OneEntryDecodes ==
    OneEntryOfGsp =>
        SplitNul(bd.buf) =
            << <<>>,
               B_x \o <<46>> \o B_firmware_eq
                   \o PathOf(LowerNames[scen.chip], B_gsp),
               <<>> >>

\* The manifest of the one entry for GA102 in module "x".
C8_Witness == OneEntryOfGsp /\ scen.chip = 6 /\ viaMacro

ComponentNames == <<
    <<98, 111, 111, 116, 101, 114, 95, 108, 111, 97, 100>>,
    <<98, 111, 111, 116, 101, 114, 95, 117, 110, 108, 111, 97, 100>>,
    <<98, 111, 111, 116, 108, 111, 97, 100, 101, 114>>,
    <<103, 115, 112>> >>

DriverBuilt == bpc = "built" /\ scen.kind = "driver"

\* C10: the driver's manifest holds, for every chipset in catalog order and
\* for booter_load, booter_unload, bootloader, gsp in that order, exactly one
\* NUL-terminated entry, whose path (the value of its "firmware=" key) is
\* "nvidia/<lowercased-chipset-name>/gsp/<component>-535.113.01.bin"; it
\* holds 4 x (number of catalog chipsets) entries and nothing else.
C10_DriverManifest ==
    DriverBuilt =>
        LET f == SplitNul(bd.buf)
            chips == Len(ChipsetALL)
        IN  /\ Len(f) = 4 * chips + 2
            /\ f[1] = <<>>
            /\ f[Len(f)] = <<>>
            /\ bd.buf[Len(bd.buf)] = 0
            /\ \A c \in 1..chips, j \in 1..4 :
                    f[1 + 4 * (c - 1) + j] =
                        KeyOf(mname) \o PathOf(LowerNames[c], ComponentNames[j])

\* The built-in driver's manifest, built.
C10_Witness == DriverBuilt /\ mname = B_NovaCore /\ viaMacro /\ Len(bd.buf) > 0

-----------------------------------------------------------------------------
(* Properties of from_u32s and into_u32s *)

\* C17: from_u32s and into_u32s are inverse to each other.  For every pair of
\* halves, from_u32s(high, low) is high * 2^32 + low and into_u32s of it gives
\* the pair (high, low) back; for every 64-bit x, from_u32s applied to the
\* halves into_u32s(x) gives x back, both halves being 32-bit values.
C17_RoundTrip ==
    /\ (pair_pc \in {"joined", "back"} =>
            /\ n_joined = n_high * Word + n_low
            /\ n_joined \in 0..(Word * Word - 1))
    /\ (pair_pc = "back" => n_back = <<n_high, n_low>>)
    /\ (value_pc \in {"split", "rejoined"} =>
            /\ n_split[1] \in 0..(Word - 1)
            /\ n_split[2] \in 0..(Word - 1)
            /\ n_split[1] * Word + n_split[2] = n_x)
    /\ (value_pc = "rejoined" => n_rejoined = n_x)

\* Both round trips done, on a pair with distinct halves and on a value whose
\* halves differ.
C17_Witness ==
    /\ pair_pc = "back"
    /\ value_pc = "rejoined"
    /\ n_high = Word - 1
    /\ n_low = 1
    /\ n_back = <<n_high, n_low>>
    /\ n_x = Word
    /\ n_rejoined = n_x

-----------------------------------------------------------------------------
(* Properties of the symbolic names *)

\* C15: the derived symbolic name of every catalog variant has the length of
\* the declared name and equals it byte for byte with the ASCII uppercase
\* letters A..Z mapped to lowercase and every other byte unchanged; the name
\* in Chipset::NAMES is that same value, whenever it is derived.
C15_NamesLowercased ==
    (name_pc = "derived"
        /\ \E k \in 1..Len(ChipsetALL) : ChipsetALL[k].ident = name_in) =>
            /\ Len(name_out) = Len(name_in)
            /\ \A i \in 1..Len(name_in) :
                    name_out[i] = IF name_in[i] \in 65..90
                                     THEN name_in[i] + 32
                                     ELSE name_in[i]
            /\ \A k \in 1..Len(ChipsetALL) :
                    ChipsetALL[k].ident = name_in =>
                        /\ ChipsetNAMES[k] = name_out
                        /\ LowerNames[k] = name_out

\* "GA102" derived as "ga102".
C15_Witness ==
    /\ name_pc = "derived"
    /\ name_in = <<71, 65, 49, 48, 50>>
    /\ name_out = <<103, 97, 49, 48, 50>>

-----------------------------------------------------------------------------
(* Properties of Gpu::new *)

\* Bit k of a u32 given as two 16-bit halves.
Bit(v, k) ==
    IF k < 16 THEN (v[2] \div 2^k) % 2 ELSE (v[1] \div 2^(k - 16)) % 2

RECURSIVE Bits(_, _, _)
\* The number whose binary digits are bits to:from of v.
Bits(v, from, to) ==
    IF to < from THEN 0 ELSE Bit(v, from) + 2 * Bits(v, from + 1, to)

SpecNewRan == gpu_pc \in {"chip_name", "request", "finish", "done"} /\ bar_ok

\* C12: for every 32-bit value v of the boot register, minor_rev is bits 3:0
\* of v, major_rev is bits 7:4 and chipset() is bits 28:20, that is the
\* architecture ID (bits 28:24) times 16 plus the implementation ID (bits
\* 23:20), whatever the other bits are.  When bits 28:20 are a catalog ID,
\* Spec::new yields the variant whose discriminant is that ID (0x162 gives
\* TU102) with the revision taken from bits 7:4 and 3:0.
C12_Boot0Decoding ==
    gpu_pc # "off" =>
        /\ Boot0_minor_rev(boot0) = Bits(boot0, 0, 3)
        /\ Boot0_major_rev(boot0) = Bits(boot0, 4, 7)
        /\ Boot0_chipset(boot0) = Bits(boot0, 20, 28)
        /\ Boot0_chipset(boot0) = Bits(boot0, 24, 28) * 16 + Bits(boot0, 20, 23)
        /\ (SpecNewRan =>
                /\ decoded = Bits(boot0, 20, 28)
                /\ (gpu_spec # NoSpec <=> Bits(boot0, 20, 28) \in CatalogIds)
                /\ (gpu_spec # NoSpec =>
                        /\ gpu_spec.chipset \in Variants
                        /\ Discriminant(gpu_spec.chipset) = Bits(boot0, 20, 28)
                        /\ gpu_spec.major = Bits(boot0, 4, 7)
                        /\ gpu_spec.minor = Bits(boot0, 0, 3))
                /\ (Bits(boot0, 20, 28) = \H162 => gpu_spec.chipset = "TU102"))

\* TU102 identified from a register value with bits 31:29 and 19:8 all set.
C12_Witness ==
    /\ SpecNewRan
    /\ boot0 = <<\HF62F, \HFF9F>>
    /\ gpu_spec = [chipset |-> "TU102", major |-> 9, minor |-> 15]

\* The index in catalog order of the chipset the Spec holds.
SpecIndex ==
    CHOOSE c \in 1..Len(ChipsetALL) : ChipsetALL[c].variant = gpu_spec.chipset

\* C13: Gpu::new fails with ENXIO when the register region is inaccessible
\* and with ENODEV when the decoded chipset ID is unknown, in both cases
\* without any firmware request being made.  The blobs are requested in the
\* order booter_load, booter_unload, bootloader, gsp, each at most once; the
\* first request that fails ends Gpu::new with that request's error, and no
\* later blob is requested.
C13_FailurePropagation ==
    gpu_pc # "off" =>
        /\ (gpu_pc = "done" /\ ~bar_ok => gpu_res = GErr("ENXIO"))
        /\ (gpu_pc = "done" /\ bar_ok /\ Bits(boot0, 20, 28) \notin CatalogIds
                => gpu_res = GErr("ENODEV"))
        /\ (~bar_ok \/ Bits(boot0, 20, 28) \notin CatalogIds =>
                /\ requested = <<>>
                /\ outcomes = <<>>
                /\ held = 0
                /\ gpu_pc \in {"spec_new", "done"})
        /\ (gpu_res.err \in {"ENXIO", "ENODEV"} => requested = <<>>)
        /\ Len(requested) <= 4
        /\ \A k \in 1..Len(requested) : requested[k].name = ComponentNames[k]
        /\ Len(requested) \in {Len(outcomes), Len(outcomes) - 1}
        /\ \A k \in 1..Len(outcomes) :
                outcomes[k] # "ok" =>
                    /\ k = Len(outcomes)
                    /\ gpu_pc = "done"
                    /\ gpu_res = GErr(outcomes[k])
                    /\ Len(requested) <= k
        /\ (gpu_pc = "done" <=> gpu_res # GNone)
        /\ (gpu_res = GOk =>
                /\ Len(requested) = 4
                /\ \A k \in 1..4 : outcomes[k] = "ok")

\* The third request failed: bootloader was asked for, gsp never.
C13_Witness ==
    /\ gpu_pc = "done"
    /\ outcomes = <<"ok", "ok", "ENOENT">>
    /\ Len(requested) = 3
    /\ requested[3].name = ComponentNames[3]
    /\ gpu_res = GErr("ENOENT")

\* The path of the manifest entry for chipset c (catalog order) and component
\* j: the entry is NUL, "firmware=", the path, NUL.
ManifestEntryPath(c, j) ==
    LET b == ModuleFirmware(make_entry_file(ChipsetNAMES[c], Components[j]), <<>>)
    IN  SubSeq(b.buf, 2 + Len(B_firmware_eq), Len(b.buf) - 1)

\* C11: for every chipset and each of the four firmware components, the path
\* Firmware::new requests at runtime (the chipset's Display name lowercased,
\* version "535.113.01") is byte for byte the path of the entry the
\* compile-time manifest holds for that chipset (its name from Chipset::NAMES)
\* and that component; a completed Firmware::new has requested all four.
C11_RuntimePathInManifest ==
    /\ \A k \in 1..Len(requested) :
            \E j \in 1..Len(Components) :
                /\ Components[j] = requested[k].name
                /\ requested[k].path = ManifestEntryPath(SpecIndex, j)
                /\ requested[k].path = PathOf(LowerNames[SpecIndex], ComponentNames[j])
    /\ (gpu_res = GOk =>
            \A j \in 1..Len(Components) :
                \E k \in 1..Len(requested) : requested[k].name = Components[j])

\* All four blobs of AD107 requested, Gpu::new returned Ok.
C11_Witness ==
    /\ gpu_res = GOk
    /\ gpu_spec.chipset = "AD107"
    /\ Len(requested) = 4
    /\ requested[4].path = PathOf(LowerNames[15], ComponentNames[4])

====
